---- MODULE Spec2Model ----
(***************************************************************************)
(* Per-frame pipeline of the character controller: keyboard and gamepad    *)
(* input, grounded detection, damping, weapon/aim, projectile lifecycle,   *)
(* character spawning and movement resolution (src/src/player.rs,          *)
(* src/src/input.rs, src/src/game.rs).                                     *)
(*                                                                         *)
(* Units: time in milliseconds, velocities in units/s, analog input        *)
(* values in hundredths (100 = 1.0), angles of rotations in eighth turns   *)
(* (8 = full turn), contact normals in degrees from "up".                  *)
(***************************************************************************)
EXTENDS Integers, Sequences, FiniteSets, TLC

\* ---------------------------------------------------------------- bounds
MaxFrames == 4
MaxInputFrames == 3
MaxChars == 2
MaxProjectiles == 1
MaxDelta == 2
MaxCastChanges == 1
MaxQueue == 2
MaxSustainedFrames == 30

\* ------------------------------------------------------ program constants
KeyboardKey == 5
SpawnAcceleration == 1250
SpawnDamping == 92
KeyboardJumpImpulse == 800
GamepadJumpImpulse == 1200
SpawnMaxSlope == 30
ProjectileLifetime == 2000
MuzzleSpeed == 500
AxisThreshold == 1
ButtonThreshold == 10
KeyboardAimX == 50
KeyboardAimY == 50
SpawnX == 50
SpawnY == 0 - 100

NoSlope == 0 - 1
NoEntity == 0 - 1

\* Gamepad entities in query iteration order; gid = entity.index().
GamepadOrder == <<5, 6>>
Gamepads == {GamepadOrder[i] : i \in 1..Len(GamepadOrder)}

\* Variant: the chain of the older plugin, resolver before damping.
SystemsOlderPlugin ==
  <<"keyboard_input", "gamepad_input", "update_grounded", "movement",
    "apply_movement_damping", "spawn_character", "apply_aim_to_gun",
    "move_objects">>

\* Variant: the movement resolver chained right after the grounded detector.
SystemsResolverEarly ==
  <<"keyboard_input", "gamepad_input", "update_grounded", "movement",
    "apply_movement_damping", "apply_aim_to_gun", "move_objects",
    "spawn_character">>

\* The systems of the Update schedule, in chain order.
Systems == <<"keyboard_input", "gamepad_input", "update_grounded",
             "apply_movement_damping", "apply_aim_to_gun", "move_objects",
             "spawn_character", "movement">>

\* ------------------------------------------------------------ input sets
NoKeys == [left |-> FALSE, right |-> FALSE, space |-> FALSE, f |-> FALSE, enter |-> FALSE]
NoPad == [lx |-> 0, south |-> 0, rx |-> 0, ry |-> 0, rt |-> 0]

\* Gamepad states (hundredths).  PadSouth: spawn/jump button down.
\* PadAim: stick right, button down, aim stick up.  PadShoot: stick left
\* and trigger down, button and aim stick at their thresholds.  PadRest:
\* every control at its threshold.  PadFull: PadAim with the trigger down.
PadSouth == [lx |-> 0, south |-> 100, rx |-> 0, ry |-> 0, rt |-> 0]
PadAim == [lx |-> 100, south |-> 100, rx |-> 0, ry |-> 100, rt |-> 0]
PadShoot == [lx |-> 0 - 100, south |-> 10, rx |-> 1, ry |-> 0 - 1, rt |-> 100]
PadFull == [lx |-> 100, south |-> 100, rx |-> 0, ry |-> 100, rt |-> 100]
PadRest == [lx |-> 1, south |-> 10, rx |-> 1, ry |-> 0 - 1, rt |-> 10]

\* Gamepad states p in which the last gamepad is in state s and the
\* others rest.
LastPad(s) == [g \in Gamepads |-> IF g = GamepadOrder[Len(GamepadOrder)] THEN s ELSE PadRest]

\* No key and no gamepad control is touched.
Idle == [k |-> NoKeys, p |-> [g \in Gamepads |-> NoPad]]

\* Device states of one frame: keyboard state k, gamepad states p.
Inputs ==
  { Idle,
    [k |-> [NoKeys EXCEPT !.enter = TRUE], p |-> [g \in Gamepads |-> NoPad]],
    [k |-> [NoKeys EXCEPT !.f = TRUE], p |-> [g \in Gamepads |-> NoPad]],
    [k |-> NoKeys, p |-> [g \in Gamepads |-> PadSouth]],
    [k |-> [NoKeys EXCEPT !.right = TRUE, !.space = TRUE], p |-> LastPad(PadAim)],
    [k |-> NoKeys, p |-> LastPad(PadShoot)],
    [k |-> [NoKeys EXCEPT !.f = TRUE], p |-> LastPad(PadFull)] }

\* Frame deltas (milliseconds): no time elapsed (paused clock), a 16 ms
\* frame and whole seconds.
DeltaTimes == {0, 16} \cup {1000 * k : k \in 1..MaxDelta}

\* Shape-cast results of one character: angles (degrees) between the
\* inverted world-space hit normal and "up".
HitLists == { <<>>, <<45>>, <<45, 0 - 30>> }

VARIABLES
  pc,               \* next system to run ("first", a system name, "physics")
  frame,            \* number of the current frame
  delta_time,       \* Time::delta of the current frame
  keys,             \* ButtonInput<KeyCode> of the current frame
  pads,             \* gid -> Gamepad state of the current frame
  players,          \* PlayerAssignments.players
  chars,            \* entity -> character components
  next_entity,      \* next fresh character entity
  projectiles,      \* entity -> Projectile components
  next_projectile,  \* next fresh projectile entity
  deferred,         \* Commands queued and not yet applied
  events_a,         \* Events<PlayerAction>: older buffer
  events_b,         \* Events<PlayerAction>: newer buffer
  event_count,      \* Events<PlayerAction>: number of events ever sent
  last_event_count, \* cursor of movement's EventReader
  resolved,         \* history: events resolved by movement
  destroyed         \* history: projectiles despawned by move_objects

vars == <<pc, frame, delta_time, keys, pads, players, chars, next_entity,
          projectiles, next_projectile, deferred, events_a, events_b,
          event_count, last_event_count, resolved, destroyed>>

\* ------------------------------------------------------------- helpers
Abs(x) == IF x < 0 THEN 0 - x ELSE x

\* n / d rounded towards zero, d > 0.
Quotient(n, d) == IF n < 0 THEN 0 - ((0 - n) \div d) ELSE n \div d

Range(s) == {s[i] : i \in 1..Len(s)}

\* Function f extended or overwritten at key k.
Put(f, k, v) == [x \in (DOMAIN f) \cup {k} |-> IF x = k THEN v ELSE f[x]]

\* Function f without key k.
Drop(f, k) == [x \in (DOMAIN f) \ {k} |-> f[x]]

Init ==
  /\ pc = "first"
  /\ frame = 0
  /\ delta_time = 0
  /\ keys = NoKeys
  /\ pads = [g \in Gamepads |-> NoPad]
  /\ players = << >>
  /\ chars = << >>
  /\ next_entity = 0
  /\ projectiles = << >>
  /\ next_projectile = 0
  /\ deferred = << >>
  /\ events_a = << >>
  /\ events_b = << >>
  /\ event_count = 0
  /\ last_event_count = 0
  /\ resolved = << >>
  /\ destroyed = {}

\* ------------------------------------------------- deferred commands
\* A queued command; op is one of "spawn_character", "insert_grounded",
\* "remove_grounded", "spawn_projectile", "despawn".
Command(op, e, a, b) == [op |-> op, e |-> e, a |-> a, b |-> b]

\* Components of a character spawned with the given jump impulse.
NewCharacter(jump, how, now) ==
  [ acceleration |-> SpawnAcceleration, damping |-> SpawnDamping,
    jump_impulse |-> jump, max_slope |-> SpawnMaxSlope,
    aim |-> 0, fire |-> 0, gun_rotation |-> 0,
    px |-> SpawnX, py |-> SpawnY,
    vx |-> 0, vy |-> 0, grounded |-> FALSE, hits |-> << >>,
    how |-> how, born |-> now ]

\* Components of a projectile fired by character owner; shot holds the
\* direction dir and the position x, y it starts from.
NewProjectile(shot, owner, now) ==
  [ dir |-> shot.dir, speed |-> MuzzleSpeed, lifetime |-> ProjectileLifetime,
    x |-> shot.x, y |-> shot.y,
    owner |-> owner, born |-> now, dist |-> 0, runs |-> 0, dts |-> {},
    body_vy |-> 0, fall |-> 0 ]

\* One command applied to the character table.
ApplyCharCommand(c, cs, now) ==
  CASE c.op = "spawn_character" ->
         Put(cs, c.e, NewCharacter(c.a, c.b, now))
    [] c.op = "insert_grounded" ->
         IF c.e \in DOMAIN cs THEN [cs EXCEPT ![c.e].grounded = TRUE] ELSE cs
    [] c.op = "remove_grounded" ->
         IF c.e \in DOMAIN cs THEN [cs EXCEPT ![c.e].grounded = FALSE] ELSE cs
    [] OTHER -> cs

\* One command applied to the projectile table.
ApplyProjectileCommand(c, ps, now) ==
  CASE c.op = "spawn_projectile" -> Put(ps, c.e, NewProjectile(c.a, c.b, now))
    [] c.op = "despawn" -> IF c.e \in DOMAIN ps THEN Drop(ps, c.e) ELSE ps
    [] OTHER -> ps

RECURSIVE ApplyChars(_, _, _)
ApplyChars(cmds, cs, now) ==
  IF cmds = << >> THEN cs
  ELSE ApplyChars(Tail(cmds), ApplyCharCommand(Head(cmds), cs, now), now)

RECURSIVE ApplyProjectiles(_, _, _)
ApplyProjectiles(cmds, ps, now) ==
  IF cmds = << >> THEN ps
  ELSE ApplyProjectiles(Tail(cmds), ApplyProjectileCommand(Head(cmds), ps, now), now)

\* Systems with a Commands parameter.
HasDeferred(s) ==
  s \in {"keyboard_input", "update_grounded", "apply_aim_to_gun",
         "move_objects", "spawn_character"}

\* Variant: the chain ignores deferred commands; they are applied only
\* when the schedule ends.
SyncAtEndOnly(s) == s = "movement"

\* The chain inserts a sync point after every system that queues commands;
\* the schedule applies what is left when its last system has run.
SyncAfter(s) == HasDeferred(s) \/ s = Systems[Len(Systems)]

\* Position of system s in the chain.
Position(s) == CHOOSE i \in 1..Len(Systems) : Systems[i] = s

\* What runs after system s.
After(s) == IF Position(s) < Len(Systems) THEN Systems[Position(s) + 1] ELSE "physics"

\* End of system s: it leaves character table cs and projectile table ps
\* and has queued cmds.
Commit(s, cmds, cs, ps) ==
  LET q == deferred \o cmds IN
  /\ pc' = After(s)
  /\ IF SyncAfter(s)
       THEN /\ chars' = ApplyChars(q, cs, frame)
            /\ projectiles' = ApplyProjectiles(q, ps, frame)
            /\ deferred' = << >>
       ELSE /\ chars' = cs
            /\ projectiles' = ps
            /\ deferred' = q

\* ----------------------------------------------------------- events
Event(kind, target, x, y, id, now) ==
  [kind |-> kind, target |-> target, x |-> x, y |-> y, id |-> id, sent |-> now]

\* evs with consecutive ids from n on, stamped with the sending frame.
RECURSIVE Stamp(_, _, _)
Stamp(evs, n, now) ==
  IF evs = << >> THEN << >>
  ELSE <<[Head(evs) EXCEPT !.id = n, !.sent = now]>> \o Stamp(Tail(evs), n + 1, now)

\* EventWriter::send of evs, in order.
Send(evs) ==
  /\ events_b' = events_b \o Stamp(evs, event_count, frame)
  /\ event_count' = event_count + Len(evs)
  /\ UNCHANGED events_a

\* ------------------------------------------ start of frame (First, PreUpdate)
Values(f) == {f[k] : k \in DOMAIN f}

KeyboardTargets == IF DOMAIN players = {} THEN {NoEntity} ELSE Values(players)

\* Sources whose spawn trigger creates a character under input k, p.
SpawnTriggers(k, p) ==
  (IF k.enter THEN {KeyboardKey} ELSE {}) \cup
  {g \in Gamepads : p[g].south > ButtonThreshold /\ g \notin DOMAIN players}

\* Characters that may get fire-intent under input k, p.
FireTargets(k, p) ==
  (IF k.f /\ DOMAIN players # {} THEN Values(players) ELSE {}) \cup
  {players[g] : g \in {h \in Gamepads \cap DOMAIN players : p[h].rt > ButtonThreshold}} \cup
  {e \in DOMAIN chars : chars[e].fire > 0}

\* The frame clock advances, the event buffers rotate, the devices are
\* polled; after MaxInputFrames frames the devices are left alone.
begin_frame ==
  /\ pc = "first"
  /\ frame < MaxFrames
  /\ frame' = frame + 1
  /\ delta_time' \in (IF frame = 0 THEN DeltaTimes ELSE {delta_time})
  /\ \E i \in (IF frame < MaxInputFrames THEN Inputs ELSE {Idle}) :
       keys' = i.k /\ pads' = i.p
  /\ Cardinality(DOMAIN chars) + Cardinality(SpawnTriggers(keys', pads')) <= MaxChars
  /\ Cardinality(DOMAIN projectiles) + Cardinality(FireTargets(keys', pads')) <= MaxProjectiles
  /\ events_a' = events_b
  /\ events_b' = << >>
  /\ pc' = "keyboard_input"
  /\ UNCHANGED <<players, chars, next_entity, projectiles, next_projectile,
                 deferred, event_count, last_event_count, resolved, destroyed>>

\* ------------------------------------------------------ keyboard_input
KeyboardEvents(k, t) ==
  LET direction == (IF k.right THEN 1 ELSE 0) - (IF k.left THEN 1 ELSE 0) IN
  (IF direction # 0 /\ t # NoEntity
     THEN <<Event("Move", t, direction * 100, 0, 0, 0)>> ELSE << >>) \o
  (IF k.space /\ t # NoEntity
     THEN <<Event("Jump", t, 0, 0, 0, 0)>> ELSE << >>) \o
  (IF k.f /\ t # NoEntity
     THEN <<Event("Aim", t, KeyboardAimX, KeyboardAimY, 0, 0),
            Event("Fire", t, 0, 0, 0, 0)>> ELSE << >>)

keyboard_input ==
  /\ pc = "keyboard_input"
  /\ \E t \in KeyboardTargets :
       Send(KeyboardEvents(keys, t))
  /\ IF keys.enter
       THEN /\ players' = Put(players, KeyboardKey, next_entity)
            /\ next_entity' = next_entity + 1
            /\ Commit("keyboard_input",
                      <<Command("spawn_character", next_entity, KeyboardJumpImpulse, 0)>>,
                      chars, projectiles)
       ELSE /\ UNCHANGED <<players, next_entity>>
            /\ Commit("keyboard_input", << >>, chars, projectiles)
  /\ UNCHANGED <<frame, delta_time, keys, pads, next_projectile,
                 last_event_count, resolved, destroyed>>

\* ------------------------------------------------------- gamepad_input
\* Variant: an axis or button at its threshold already counts.
PadEventsInclusive(p, e) ==
  (IF Abs(p.lx) >= AxisThreshold
     THEN <<Event("Move", e, p.lx, 0, 0, 0)>> ELSE << >>) \o
  (IF p.south >= ButtonThreshold
     THEN <<Event("Jump", e, 0, 0, 0, 0)>> ELSE << >>) \o
  (IF Abs(p.rx) >= AxisThreshold \/ Abs(p.ry) >= AxisThreshold
     THEN <<Event("Aim", e, p.rx, p.ry, 0, 0)>> ELSE << >>) \o
  (IF p.rt >= ButtonThreshold
     THEN <<Event("Fire", e, 0, 0, 0, 0)>> ELSE << >>)

\* The events of one bound gamepad in state p, for its character e.
PadEvents(p, e) ==
  (IF Abs(p.lx) > AxisThreshold
     THEN <<Event("Move", e, p.lx, 0, 0, 0)>> ELSE << >>) \o
  (IF p.south > ButtonThreshold
     THEN <<Event("Jump", e, 0, 0, 0, 0)>> ELSE << >>) \o
  (IF Abs(p.rx) > AxisThreshold \/ Abs(p.ry) > AxisThreshold
     THEN <<Event("Aim", e, p.rx, p.ry, 0, 0)>> ELSE << >>) \o
  (IF p.rt > ButtonThreshold
     THEN <<Event("Fire", e, 0, 0, 0, 0)>> ELSE << >>)

\* Variant: a gamepad without a binding drives some bound character.
RECURSIVE GamepadEventsAnyTarget(_, _, _)
GamepadEventsAnyTarget(order, p, asg) ==
  IF order = << >> THEN << >>
  ELSE (IF Head(order) \in DOMAIN asg
          THEN PadEvents(p[Head(order)], asg[Head(order)])
          ELSE IF DOMAIN asg # {}
            THEN PadEvents(p[Head(order)], asg[CHOOSE k \in DOMAIN asg : TRUE])
            ELSE << >>)
       \o GamepadEventsAnyTarget(Tail(order), p, asg)

\* The events of the bound gamepads, gamepad by gamepad.
RECURSIVE GamepadEvents(_, _, _)
GamepadEvents(order, p, asg) ==
  IF order = << >> THEN << >>
  ELSE (IF Head(order) \in DOMAIN asg
          THEN PadEvents(p[Head(order)], asg[Head(order)]) ELSE << >>)
       \o GamepadEvents(Tail(order), p, asg)

gamepad_input ==
  /\ pc = "gamepad_input"
  /\ Send(GamepadEvents(GamepadOrder, pads, players))
  /\ Commit("gamepad_input", << >>, chars, projectiles)
  /\ UNCHANGED <<frame, delta_time, keys, pads, players, next_entity,
                 next_projectile, last_event_count, resolved, destroyed>>

\* ----------------------------------------------------- update_grounded
\* The entities of S in ascending order (query iteration order).
RECURSIVE Ordered(_)
Ordered(S) ==
  IF S = {} THEN << >>
  ELSE LET m == CHOOSE x \in S : \A y \in S : x <= y IN <<m>> \o Ordered(S \ {m})

\* Variant: a hit at exactly the maximum slope angle does not count.
is_grounded_strict(hits, max_slope) ==
  \E i \in 1..Len(hits) :
    IF max_slope # NoSlope THEN Abs(hits[i]) < max_slope ELSE TRUE

\* Some hit has a normal that is not too steep.
is_grounded(hits, max_slope) ==
  \E i \in 1..Len(hits) :
    IF max_slope # NoSlope THEN Abs(hits[i]) <= max_slope ELSE TRUE

RECURSIVE GroundedCommands(_, _)
GroundedCommands(order, cs) ==
  IF order = << >> THEN << >>
  ELSE LET e == Head(order) IN
       <<Command(IF is_grounded(cs[e].hits, cs[e].max_slope)
                   THEN "insert_grounded" ELSE "remove_grounded", e, 0, 0)>>
       \o GroundedCommands(Tail(order), cs)

update_grounded ==
  /\ pc = "update_grounded"
  /\ Commit("update_grounded", GroundedCommands(Ordered(DOMAIN chars), chars),
            chars, projectiles)
  /\ UNCHANGED <<frame, delta_time, keys, pads, players, next_entity,
                 next_projectile, events_a, events_b, event_count,
                 last_event_count, resolved, destroyed>>

\* ---------------------------------------------- apply_movement_damping
\* v scaled by d hundredths, rounded towards zero.
Scale(v, d) == IF v < 0 THEN 0 - (((0 - v) * d) \div 100) ELSE (v * d) \div 100

\* Variant: the stage leaves the velocity as it is.
DampedOff(c) == c

\* Variant: the velocity is divided by the damping factor.
DampedInverse(c) == [c EXCEPT !.vx = Quotient(c.vx * 100, c.damping)]

\* Variant: both velocity components are damped.
DampedBoth(c) == [c EXCEPT !.vx = Scale(c.vx, c.damping), !.vy = Scale(c.vy, c.damping)]

\* The character after the damping stage.
Damped(c) == [c EXCEPT !.vx = Scale(c.vx, c.damping)]

apply_movement_damping ==
  /\ pc = "apply_movement_damping"
  /\ Commit("apply_movement_damping", << >>,
            [e \in DOMAIN chars |-> Damped(chars[e])], projectiles)
  /\ UNCHANGED <<frame, delta_time, keys, pads, players, next_entity,
                 next_projectile, events_a, events_b, event_count,
                 last_event_count, resolved, destroyed>>

\* ---------------------------------------------------- apply_aim_to_gun
\* Variant: the quarter turn goes counter-clockwise.
AdjustedAimForward(r) == (r + 2) % 8

\* Rotation r followed by a quarter turn clockwise.
AdjustedAim(r) == (r + 6) % 8

\* Variant: fire-intent is left as it is.
GunnedKeepsFire(c) == [c EXCEPT !.gun_rotation = c.aim]

\* The gun takes the aim; fire-intent is cleared.
Gunned(c) == [c EXCEPT !.gun_rotation = c.aim, !.fire = 0]

\* Spawn commands for the characters of order whose fire-intent is set.
RECURSIVE FireCommands(_, _, _)
FireCommands(order, cs, n) ==
  IF order = << >> THEN << >>
  ELSE LET e == Head(order) IN
       IF cs[e].fire > 0
         THEN <<Command("spawn_projectile", n,
                        [dir |-> AdjustedAim(cs[e].aim), x |-> cs[e].px, y |-> cs[e].py],
                        e)>>
              \o FireCommands(Tail(order), cs, n + 1)
         ELSE FireCommands(Tail(order), cs, n)

apply_aim_to_gun ==
  LET cmds == FireCommands(Ordered(DOMAIN chars), chars, next_projectile) IN
  /\ pc = "apply_aim_to_gun"
  /\ next_projectile' = next_projectile + Len(cmds)
  /\ Commit("apply_aim_to_gun", cmds,
            [e \in DOMAIN chars |-> Gunned(chars[e])], projectiles)
  /\ UNCHANGED <<frame, delta_time, keys, pads, players, next_entity,
                 events_a, events_b, event_count, last_event_count,
                 resolved, destroyed>>

\* -------------------------------------------------------- move_objects
\* Variant: the lifetime is never found to have run out.
AliveAlways(p) == TRUE

\* The projectile's lifetime has not run out before this run.
Alive(p) == p.lifetime > 0

\* One run of the loop body on projectile p.
Moved(p, dt) ==
  [p EXCEPT !.dist = p.dist + Quotient(p.speed * dt, 1000),
            !.lifetime = IF Alive(p) THEN p.lifetime - dt ELSE p.lifetime,
            !.runs = p.runs + 1,
            !.dts = p.dts \cup {dt}]

RECURSIVE DespawnCommands(_, _)
DespawnCommands(order, ps) ==
  IF order = << >> THEN << >>
  ELSE (IF Alive(ps[Head(order)]) THEN << >>
        ELSE <<Command("despawn", Head(order), 0, 0)>>)
       \o DespawnCommands(Tail(order), ps)

move_objects ==
  LET cmds == DespawnCommands(Ordered(DOMAIN projectiles), projectiles)
      moved == [i \in DOMAIN projectiles |-> Moved(projectiles[i], delta_time)] IN
  /\ pc = "move_objects"
  /\ destroyed' = destroyed \cup
       {[id |-> cmds[i].e, runs |-> moved[cmds[i].e].runs,
         dts |-> moved[cmds[i].e].dts, at |-> frame] : i \in 1..Len(cmds)}
  /\ Commit("move_objects", cmds, chars, moved)
  /\ UNCHANGED <<frame, delta_time, keys, pads, players, next_entity,
                 next_projectile, events_a, events_b, event_count,
                 last_event_count, resolved>>

\* ----------------------------------------------------- spawn_character
\* Variant: every gamepad of the frame is bound to the same new entity.
RECURSIVE SpawnLoopShared(_, _, _)
SpawnLoopShared(order, p, st) ==
  IF order = << >> THEN st
  ELSE LET gid == Head(order) IN
       IF p[gid].south > ButtonThreshold /\ gid \notin DOMAIN st.asg
         THEN SpawnLoopShared(Tail(order), p,
                [asg  |-> Put(st.asg, gid, st.n),
                 n    |-> st.n,
                 cmds |-> st.cmds \o
                          <<Command("spawn_character", st.n, GamepadJumpImpulse, 1)>>])
         ELSE SpawnLoopShared(Tail(order), p, st)

\* Variant: the loop stops after the first character it spawns.
RECURSIVE SpawnLoopOnce(_, _, _)
SpawnLoopOnce(order, p, st) ==
  IF order = << >> THEN st
  ELSE LET gid == Head(order) IN
       IF p[gid].south > ButtonThreshold /\ gid \notin DOMAIN st.asg
         THEN [asg  |-> Put(st.asg, gid, st.n),
               n    |-> st.n + 1,
               cmds |-> st.cmds \o
                        <<Command("spawn_character", st.n, GamepadJumpImpulse, 1)>>]
         ELSE SpawnLoopOnce(Tail(order), p, st)

\* The loop over the gamepads: assignments asg, next fresh entity n and
\* queued commands cmds after the gamepads of order.
RECURSIVE SpawnLoop(_, _, _)
SpawnLoop(order, p, st) ==
  IF order = << >> THEN st
  ELSE LET gid == Head(order) IN
       IF p[gid].south > ButtonThreshold /\ gid \notin DOMAIN st.asg
         THEN SpawnLoop(Tail(order), p,
                [asg  |-> Put(st.asg, gid, st.n),
                 n    |-> st.n + 1,
                 cmds |-> st.cmds \o
                          <<Command("spawn_character", st.n, GamepadJumpImpulse, 1)>>])
         ELSE SpawnLoop(Tail(order), p, st)

spawn_character ==
  LET st == SpawnLoop(GamepadOrder, pads,
                      [asg |-> players, n |-> next_entity, cmds |-> << >>]) IN
  /\ pc = "spawn_character"
  /\ players' = st.asg
  /\ next_entity' = st.n
  /\ Commit("spawn_character", st.cmds, chars, projectiles)
  /\ UNCHANGED <<frame, delta_time, keys, pads, next_projectile, events_a,
                 events_b, event_count, last_event_count, resolved, destroyed>>

\* ------------------------------------------------------------ movement
\* atan2(y, x) in eighth turns, for directions on an axis or a diagonal.
Atan2(y, x) ==
  CASE y = 0 /\ x >= 0 -> 0
    [] y > 0 /\ x > 0  -> 1
    [] y > 0 /\ x = 0  -> 2
    [] y > 0 /\ x < 0  -> 3
    [] y = 0 /\ x < 0  -> 4
    [] y < 0 /\ x < 0  -> 5
    [] y < 0 /\ x = 0  -> 6
    [] y < 0 /\ x > 0  -> 7

\* Variant: the speed is clamped to the acceleration's magnitude.
MoveClamped(c, dir, dt) ==
  LET v == c.vx + Quotient(dir * c.acceleration * dt, 100000) IN
  [c EXCEPT !.vx = IF v > c.acceleration THEN c.acceleration
                   ELSE IF v < 0 - c.acceleration THEN 0 - c.acceleration ELSE v]

\* Move: dir hundredths of full deflection for dt milliseconds.
Move(c, dir, dt) == [c EXCEPT !.vx = c.vx + Quotient(dir * c.acceleration * dt, 100000)]

\* Variant: the jump is not gated by the grounded tag.
JumpUngated(c) == [c EXCEPT !.vy = c.jump_impulse]

Jump(c) == IF c.grounded THEN [c EXCEPT !.vy = c.jump_impulse] ELSE c

\* Variant: the stick angle is added to the aim held before.
AimRelative(c, x, y) == [c EXCEPT !.aim = (c.aim + Atan2(y, x) + 2) % 8]

\* Aim: the stick angle plus a quarter turn becomes the aim.
Aim(c, x, y) == [c EXCEPT !.aim = (Atan2(y, x) + 2) % 8]

\* Variant: every Fire adds one to fire-intent.
FireCounts(c) == [c EXCEPT !.fire = c.fire + 1]

\* Variant: firing also puts the aim back to identity.
FireForgetsAim(c) == [c EXCEPT !.fire = 1, !.aim = 0]

\* Fire: fire-intent is set.
Fire(c) == [c EXCEPT !.fire = 1]

\* One event of the loop applied to the character table.
Resolve(ev, cs, dt) ==
  IF ev.target \notin DOMAIN cs THEN cs
  ELSE [cs EXCEPT ![ev.target] =
          CASE ev.kind = "Move" -> Move(@, ev.x, dt)
            [] ev.kind = "Jump" -> Jump(@)
            [] ev.kind = "Aim"  -> Aim(@, ev.x, ev.y)
            [] ev.kind = "Fire" -> Fire(@)]

\* Variant: the events are resolved from the last one to the first.
RECURSIVE ResolveAllReversed(_, _, _)
ResolveAllReversed(evs, cs, dt) ==
  IF evs = << >> THEN cs
  ELSE Resolve(Head(evs), ResolveAllReversed(Tail(evs), cs, dt), dt)

\* Variant: the loop ends at the first event whose target is missing.
RECURSIVE ResolveAllUntilMissing(_, _, _)
ResolveAllUntilMissing(evs, cs, dt) ==
  IF evs = << >> THEN cs
  ELSE IF Head(evs).target \notin DOMAIN cs THEN cs
  ELSE ResolveAllUntilMissing(Tail(evs), Resolve(Head(evs), cs, dt), dt)

\* The loop over the events read.
RECURSIVE ResolveAll(_, _, _)
ResolveAll(evs, cs, dt) ==
  IF evs = << >> THEN cs
  ELSE ResolveAll(Tail(evs), Resolve(Head(evs), cs, dt), dt)

\* EventReader::read: the buffered events the reader has not seen.
Unread(cursor) == SelectSeq(events_a \o events_b, LAMBDA ev : ev.id >= cursor)

\* Variant: read() leaves the cursor where it was.
AdvanceStuck(cursor, count) == cursor

\* The reader's cursor after read().
Advance(cursor, count) == count

RECURSIVE Log(_, _)
Log(evs, now) ==
  IF evs = << >> THEN << >>
  ELSE <<[id |-> Head(evs).id, kind |-> Head(evs).kind, target |-> Head(evs).target,
          x |-> Head(evs).x, y |-> Head(evs).y,
          sent |-> Head(evs).sent, at |-> now]>>
       \o Log(Tail(evs), now)

movement ==
  LET evs == Unread(last_event_count) IN
  /\ pc = "movement"
  /\ last_event_count' = Advance(last_event_count, event_count)
  /\ resolved' = resolved \o Log(evs, frame)
  /\ Commit("movement", << >>, ResolveAll(evs, chars, delta_time), projectiles)
  /\ UNCHANGED <<frame, delta_time, keys, pads, players, next_entity,
                 next_projectile, events_a, events_b, event_count, destroyed>>

\* ------------------------------------------------- physics (PhysicsPlugins)
\* World gravity (units/s^2) and the characters' gravity scale (tenths).
Gravity == 1000
GravityScale == 15

\* The vertical velocity of character c after a step with cast results h.
Fallen(c, h, dt) ==
  IF h = << >> THEN c.vy - Quotient(Gravity * GravityScale * dt, 10000)
  ELSE IF c.vy < 0 THEN 0 ELSE c.vy

\* The physics step of character c with new cast results h.
Stepped(c, h, dt) ==
  [c EXCEPT !.hits = h,
            !.vy = Fallen(c, h, dt),
            !.px = c.px + Quotient(c.vx * dt, 1000),
            !.py = c.py + Quotient(Fallen(c, h, dt) * dt, 1000)]

\* The physics step of projectile p, a dynamic body: gravity changes the
\* body's vertical velocity body_vy, which moves the body; fall is what
\* the body has moved by, in thousandths of a unit.  Contacts of
\* projectiles are left out.
SteppedBody(p, dt) ==
  [p EXCEPT !.body_vy = p.body_vy - Quotient(Gravity * dt, 1000),
            !.fall = p.fall + (p.body_vy - Quotient(Gravity * dt, 1000)) * dt]

physics ==
  /\ pc = "physics"
  /\ \E S \in {T \in SUBSET DOMAIN chars : Cardinality(T) <= MaxCastChanges} :
       \E h \in [S -> HitLists] :
         chars' = [e \in DOMAIN chars |->
                     Stepped(chars[e], IF e \in S THEN h[e] ELSE chars[e].hits, delta_time)]
  /\ projectiles' = [i \in DOMAIN projectiles |-> SteppedBody(projectiles[i], delta_time)]
  /\ pc' = "first"
  /\ UNCHANGED <<frame, delta_time, keys, pads, players, next_entity,
                 next_projectile, deferred, events_a, events_b,
                 event_count, last_event_count, resolved, destroyed>>

\* ------------------------------------------------------- specification
Next ==
  \/ begin_frame
  \/ keyboard_input
  \/ gamepad_input
  \/ update_grounded
  \/ apply_movement_damping
  \/ apply_aim_to_gun
  \/ move_objects
  \/ spawn_character
  \/ movement
  \/ physics

Spec == Init /\ [][Next]_vars

\* ------------------------------------------- a projectile in flight
\* A new projectile p after k frames of delta dt that left it alive: k
\* runs of the lifecycle stage, each followed by a physics step.
Flown(p, k, dt) ==
  [p EXCEPT !.lifetime = p.lifetime - k * dt,
            !.runs = k,
            !.dist = k * Quotient(p.speed * dt, 1000),
            !.dts = IF k = 0 THEN {} ELSE {dt},
            !.body_vy = 0 - k * Quotient(Gravity * dt, 1000),
            !.fall = 0 - Quotient(Gravity * dt, 1000) * dt * ((k * (k + 1)) \div 2)]

\* Numbers of frames a projectile has been through: none, or all but the
\* last ones of its lifetime.
FramesFlown(dt) ==
  IF dt = 0 THEN {0, 1}
  ELSE {0, (ProjectileLifetime + dt - 1) \div dt - 1, (ProjectileLifetime + dt - 1) \div dt}

\* The lifecycle stage is about to run in the last frame but one.  One
\* character, bound to the last gamepad, has a projectile in flight.
InitLifecycle ==
  /\ pc = "move_objects"
  /\ frame = MaxFrames - 1
  /\ delta_time \in DeltaTimes
  /\ keys = NoKeys
  /\ pads = [g \in Gamepads |-> NoPad]
  /\ players = [g \in {GamepadOrder[Len(GamepadOrder)]} |-> 0]
  /\ next_entity = 1
  /\ \E a \in {0, 4} : \E k \in FramesFlown(delta_time) :
       /\ chars = [e \in {0} |->
                     [NewCharacter(GamepadJumpImpulse, 1, frame - k - 2)
                        EXCEPT !.aim = a, !.gun_rotation = a]]
       /\ projectiles = [i \in {0} |->
                           Flown(NewProjectile([dir |-> AdjustedAim(a), x |-> SpawnX,
                                                y |-> SpawnY], 0, frame - k),
                                 k, delta_time)]
  /\ next_projectile = 1
  /\ deferred = << >>
  /\ events_a = << >>
  /\ events_b = << >>
  /\ event_count = 0
  /\ last_event_count = 0
  /\ resolved = << >>
  /\ destroyed = {}

\* The app runs its schedules frame after frame.
SpecLifecycle == InitLifecycle /\ [][Next]_vars /\ WF_vars(Next)

\* --------------------------------------- the resolver on arbitrary queues
\* Entities an event may name: the characters that can exist and one more.
Targets == 0..Len(GamepadOrder)

\* Events as the translators send them, for any of the targets.
QueueEvents ==
  UNION {{Event("Move", t, 100, 0, 0, 0), Event("Jump", t, 0, 0, 0, 0),
          Event("Aim", t, 0, 100, 0, 0), Event("Fire", t, 0, 0, 0, 0)} : t \in Targets}

Queues == UNION {[1..n -> QueueEvents] : n \in 0..MaxQueue}

\* The first n gamepads bound to gamepad-spawned characters 0..n-1, the
\* first of them grounded.
BoundChars(n) ==
  [e \in 0..(n - 1) |->
     [NewCharacter(GamepadJumpImpulse, 1, 0) EXCEPT !.grounded = (e = 0),
                                                   !.hits = IF e = 0 THEN <<0>> ELSE << >>]]

\* The resolver is about to run in frame 1 on a queue of unread events.
InitResolver ==
  /\ pc = "movement"
  /\ frame = 1
  /\ delta_time \in DeltaTimes
  /\ keys = NoKeys
  /\ pads = [g \in Gamepads |-> NoPad]
  /\ \E n \in 0..Len(GamepadOrder) :
       /\ players = [g \in {GamepadOrder[i] : i \in 1..n} |->
                       (CHOOSE i \in 1..n : GamepadOrder[i] = g) - 1]
       /\ chars = BoundChars(n)
       /\ next_entity = n
  /\ projectiles = << >>
  /\ next_projectile = 0
  /\ deferred = << >>
  /\ events_a = << >>
  /\ \E q \in Queues :
       /\ events_b = Stamp(q, 0, 1)
       /\ event_count = Len(q)
  /\ last_event_count = 0
  /\ resolved = << >>
  /\ destroyed = {}

NextResolver == movement

SpecResolver == InitResolver /\ [][NextResolver]_vars

\* ------------------------------------------- a character under sustained input
\* Deflections of the move stick or key pair held during a frame
\* (hundredths); 0 sends no Move.
SustainedDirs == {0 - 100, 0, 50, 100}

\* Frame deltas with time elapsing.
SustainedDeltas == {16, 1000}

\* One gamepad-spawned character at rest, bound to the last gamepad; no
\* projectile.
InitSustained ==
  /\ pc = "first"
  /\ frame = 0
  /\ delta_time \in SustainedDeltas
  /\ keys = NoKeys
  /\ pads = [g \in Gamepads |-> NoPad]
  /\ players = [g \in {GamepadOrder[Len(GamepadOrder)]} |-> 0]
  /\ chars = [e \in {0} |-> NewCharacter(GamepadJumpImpulse, 1, 0)]
  /\ next_entity = 1
  /\ projectiles = << >>
  /\ next_projectile = 0
  /\ deferred = << >>
  /\ events_a = << >>
  /\ events_b = << >>
  /\ event_count = 0
  /\ last_event_count = 0
  /\ resolved = << >>
  /\ destroyed = {}

\* What one frame of the chain does to the velocity of a character that is
\* sent at most one Move: the damping stage, then the resolver's Move arm;
\* the physics step leaves the horizontal velocity alone.
sustained_frame ==
  /\ pc = "first"
  /\ frame < MaxSustainedFrames
  /\ frame' = frame + 1
  /\ \E dir \in SustainedDirs :
       chars' = [e \in DOMAIN chars |->
                   IF dir = 0 THEN Damped(chars[e])
                   ELSE Move(Damped(chars[e]), dir, delta_time)]
  /\ UNCHANGED <<pc, delta_time, keys, pads, players, next_entity, projectiles,
                 next_projectile, deferred, events_a, events_b, event_count,
                 last_event_count, resolved, destroyed>>

NextSustained == sustained_frame

SpecSustained == InitSustained /\ [][NextSustained]_vars

\* ------------------------------------------------------------ properties
\* The events the resolver resolved in this step.
ResolvedNow == {resolved'[i] : i \in (Len(resolved) + 1)..Len(resolved')}

\* The kinds of event resolved for character e in this step.
KindsNow(e) == {r.kind : r \in {q \in ResolvedNow : q.target = e}}

\* The events resolved for character e in the current frame.
ResolvedFor(e, kind) ==
  {i \in 1..Len(resolved) :
     resolved[i].target = e /\ resolved[i].kind = kind /\ resolved[i].at = frame}

\* Some cast result of character c is within its maximum slope angle.
HasGroundHit(c) ==
  \E i \in 1..Len(c.hits) :
    c.max_slope = NoSlope \/ (0 - c.max_slope <= c.hits[i] /\ c.hits[i] <= c.max_slope)

\* C1: resolving Jump for an existing character sets its vertical velocity
\* to its jump impulse when it carries the grounded tag and leaves it alone
\* when it does not; no other attribute of the character changes.
C1_JumpGatedByGrounded ==
  [][pc = "movement" =>
       \A e \in DOMAIN chars :
         /\ ("Jump" \in KindsNow(e) /\ chars[e].grounded)
              => chars'[e].vy = chars[e].jump_impulse
         /\ ("Jump" \notin KindsNow(e) \/ ~chars[e].grounded)
              => chars'[e].vy = chars[e].vy
         /\ (KindsNow(e) = {"Jump"} /\ ~chars[e].grounded)
              => chars'[e] = chars[e]
         /\ (KindsNow(e) = {"Jump"} /\ chars[e].grounded)
              => chars'[e] = [chars[e] EXCEPT !.vy = chars[e].jump_impulse]]_vars

\* After the resolver: one character jumped from the ground, another was
\* sent Jump in the air and kept its velocity.
C1_Witness ==
  /\ pc = "physics"
  /\ \E e \in DOMAIN chars :
       /\ ResolvedFor(e, "Jump") # {}
       /\ chars[e].grounded
       /\ chars[e].vy = chars[e].jump_impulse
  /\ \E e \in DOMAIN chars :
       /\ ResolvedFor(e, "Jump") # {}
       /\ ~chars[e].grounded
       /\ chars[e].vy # chars[e].jump_impulse

\* Smallest n with n * dt >= l.
Ceil(l, dt) == (l + dt - 1) \div dt

\* C2: a projectile that saw the constant frame delta dt is destroyed in
\* its lifecycle run number ceil(lifetime / dt).
C2_DestroyedAtCeil ==
  \A d \in destroyed :
    \A dt \in d.dts :
      (d.dts = {dt} /\ dt > 0) => d.runs = Ceil(ProjectileLifetime, dt)

\* C3: a spawn trigger from a source that is already bound creates no
\* character and leaves the assignments as they are.
C3_DuplicateSpawnIgnored ==
  [][/\ (pc = "keyboard_input" /\ keys.enter /\ KeyboardKey \in DOMAIN players)
          => (players' = players /\ DOMAIN chars' = DOMAIN chars)
     /\ (pc = "spawn_character"
           /\ \A g \in Gamepads : pads[g].south > ButtonThreshold => g \in DOMAIN players)
          => (players' = players /\ DOMAIN chars' = DOMAIN chars)]_vars

\* C4: a bound source stays bound to the same character.
C4_BindingsPersist ==
  [][\A k \in DOMAIN players : k \in DOMAIN players' /\ players'[k] = players[k]]_vars

\* C5: no character is the value of two keys of the assignments.
C5_AssignmentsInjective ==
  \A k1 \in DOMAIN players : \A k2 \in DOMAIN players :
    players[k1] = players[k2] => k1 = k2

\* Two keys are bound; the key shared by the keyboard and a gamepad holds
\* the keyboard's character while that gamepad presses spawn.
C5_Witness ==
  /\ pc = "movement"
  /\ Cardinality(DOMAIN players) >= 2
  /\ KeyboardKey \in Gamepads \cap DOMAIN players
  /\ pads[KeyboardKey].south > ButtonThreshold
  /\ chars[players[KeyboardKey]].how = 0

\* The gamepads that press spawn and are not bound.
UnboundPressing == {g \in Gamepads : pads[g].south > ButtonThreshold /\ g \notin DOMAIN players}

C7_ResolvedOnceInFrame ==
  /\ \A i \in 1..Len(resolved) : \A j \in 1..Len(resolved) :
       resolved[i].id = resolved[j].id => i = j
  /\ \A i \in 1..Len(resolved) : resolved[i].at = resolved[i].sent
  /\ pc \in {"physics", "first"} =>
       {resolved[i].id : i \in 1..Len(resolved)} = 0..(event_count - 1)

\* After the resolver, with last frame's events still buffered: events of
\* two frames have been resolved, those of this frame from two producers.
C7_Witness ==
  /\ pc = "physics"
  /\ events_a # << >>
  /\ Len(events_b) >= 2
  /\ \E i \in 1..Len(resolved) : resolved[i].at < frame
  /\ \E i \in 1..Len(resolved) : resolved[i].at = frame

\* The stages in the order of the claim.
StageOrder ==
  <<"keyboard_input", "gamepad_input", "update_grounded",
    "apply_movement_damping", "apply_aim_to_gun", "spawn_character", "movement">>

Rank(s) == CHOOSE i \in 1..Len(StageOrder) : StageOrder[i] = s

\* C8: the stages run in the fixed order, each with its deferred changes
\* applied before the next starts; the aim changes only in the resolver, so
\* the weapon stage copies the aim the last resolver left.
C8_StageOrder ==
  [][/\ deferred' = << >>
     /\ (pc \in Range(StageOrder) /\ pc' \in Range(StageOrder))
          => Rank(pc') = Rank(pc) + 1
     /\ pc' = "move_objects" => pc = "apply_aim_to_gun"
     /\ pc = "move_objects" => pc' = "spawn_character"
     /\ pc = "first" => pc' = StageOrder[1]
     /\ pc' = "physics" => pc = StageOrder[Len(StageOrder)]
     /\ pc # "movement" =>
          \A e \in DOMAIN chars : e \in DOMAIN chars' /\ chars'[e].aim = chars[e].aim
     /\ pc = "apply_aim_to_gun" =>
          \A e \in DOMAIN chars : chars'[e].gun_rotation = chars[e].aim]_vars

\* After the weapon stage: a gun carries the aim that an Aim event resolved
\* in the frame before gave its character.
C8_Witness ==
  /\ pc = "move_objects"
  /\ \E e \in DOMAIN chars :
       /\ chars[e].aim # 0
       /\ chars[e].gun_rotation = chars[e].aim
       /\ \E i \in 1..Len(resolved) :
            /\ resolved[i].kind = "Aim"
            /\ resolved[i].target = e
            /\ resolved[i].at = frame - 1

\* C9: a Jump takes effect exactly when the cast results of the current
\* frame contain a hit within the maximum slope angle.
C9_JumpReadsThisFramesGround ==
  [][pc = "movement" =>
       \A e \in DOMAIN chars :
         "Jump" \in KindsNow(e) =>
           chars'[e].vy = IF HasGroundHit(chars[e])
                            THEN chars[e].jump_impulse ELSE chars[e].vy]_vars

\* After the resolver: a character created in the frame before, whose tag
\* was absent when that frame ended, has jumped.
C9_Witness ==
  /\ pc = "physics"
  /\ \E e \in DOMAIN chars :
       /\ chars[e].born = frame - 1
       /\ ResolvedFor(e, "Jump") # {}
       /\ HasGroundHit(chars[e])
       /\ chars[e].vy = chars[e].jump_impulse

\* The grounded detector of the current frame has run.
AfterDetector ==
  pc \in {"apply_movement_damping", "apply_aim_to_gun", "move_objects",
          "spawn_character", "movement", "physics"}

\* The grounded detector has not yet seen character c.
Undetected(c) ==
  \/ c.born = frame /\ (c.how = 1 \/ ~AfterDetector)
  \/ c.born = frame - 1 /\ c.how = 1 /\ ~AfterDetector /\ pc # "first"

\* C10: once the detector has run, a character is grounded exactly when its
\* cast results of this frame contain a hit within the maximum slope angle
\* (any hit without a maximum slope angle); a character the detector has
\* not seen yet is airborne.
C10_GroundedFromHits ==
  \A e \in DOMAIN chars :
    /\ AfterDetector => (chars[e].grounded <=> HasGroundHit(chars[e]))
    /\ (AfterDetector /\ chars[e].hits = << >>) => ~chars[e].grounded
    /\ Undetected(chars[e]) => ~chars[e].grounded

\* After the detector: one character is grounded by a hit at exactly the
\* maximum slope angle next to a steeper one, another has only a hit that
\* is too steep and is airborne.
C10_Witness ==
  /\ AfterDetector
  /\ \E e \in DOMAIN chars :
       /\ chars[e].grounded
       /\ \E i \in 1..Len(chars[e].hits) : Abs(chars[e].hits[i]) = chars[e].max_slope
       /\ \E i \in 1..Len(chars[e].hits) : Abs(chars[e].hits[i]) > chars[e].max_slope
  /\ \E e \in DOMAIN chars :
       /\ ~chars[e].grounded
       /\ chars[e].hits # << >>

\* The frame whose resolver ran last before the current state.
LastResolverFrame == IF pc \in {"physics", "first"} THEN frame ELSE frame - 1

\* A Fire event for character e was resolved in frame f.
FireResolvedIn(e, f) ==
  \E i \in 1..Len(resolved) :
    resolved[i].kind = "Fire" /\ resolved[i].target = e /\ resolved[i].at = f

\* C11: from the weapon stage until the resolver no character has
\* fire-intent; fire-intent is set only when a Fire event for the character
\* was resolved after the last weapon stage.
C11_FireIntentCleared ==
  \A e \in DOMAIN chars :
    /\ pc \in {"move_objects", "spawn_character", "movement"} => chars[e].fire = 0
    /\ chars[e].fire > 0 =>
         /\ pc \in {"physics", "first", "keyboard_input", "gamepad_input",
                    "update_grounded", "apply_movement_damping", "apply_aim_to_gun"}
         /\ FireResolvedIn(e, LastResolverFrame)

\* After the weapon stage: one character's fire-intent produced a
\* projectile, another character has none; fire-intent is clear for both.
C11_Witness ==
  /\ pc = "move_objects"
  /\ \E i \in DOMAIN projectiles :
       /\ projectiles[i].born = frame
       /\ FireResolvedIn(projectiles[i].owner, frame - 1)
       /\ chars[projectiles[i].owner].fire = 0
       /\ \E e \in DOMAIN chars :
            /\ e # projectiles[i].owner
            /\ ~FireResolvedIn(e, frame - 1)
            /\ chars[e].fire = 0

\* C12: the weapon stage spawns one projectile for each character with
\* fire-intent, at the character's position, with lifetime 2 s, speed 500
\* and the aim turned back by a quarter turn as direction; it spawns
\* nothing else and leaves the other projectiles alone.
C12_ProjectileFromFireIntent ==
  [][pc = "apply_aim_to_gun" =>
       LET new == DOMAIN projectiles' \ DOMAIN projectiles
           firing == {e \in DOMAIN chars : chars[e].fire > 0} IN
       /\ Cardinality(new) = Cardinality(firing)
       /\ \A i \in new : projectiles'[i].owner \in firing
       /\ \A e \in firing :
            \E i \in new :
              /\ projectiles'[i].owner = e
              /\ projectiles'[i].x = chars[e].px
              /\ projectiles'[i].y = chars[e].py
              /\ projectiles'[i].lifetime = 2000
              /\ projectiles'[i].speed = 500
              /\ projectiles'[i].dir = (chars[e].aim + 8 - 2) % 8
       /\ \A i \in DOMAIN projectiles :
            i \in DOMAIN projectiles' /\ projectiles'[i] = projectiles[i]]_vars

\* After the weapon stage: a character that has aimed and moved away from
\* its spawn point has fired; another character has not.
C12_Witness ==
  /\ pc = "move_objects"
  /\ \E i \in DOMAIN projectiles :
       /\ projectiles[i].born = frame
       /\ projectiles[i].runs = 0
       /\ chars[projectiles[i].owner].aim # 0
       /\ projectiles[i].x = chars[projectiles[i].owner].px
       /\ projectiles[i].x # SpawnX
       /\ Cardinality(DOMAIN chars) > Cardinality(DOMAIN projectiles)

\* The events sent in this step.
NewEvents == SubSeq(events_b', Len(events_b) + 1, Len(events_b'))

\* The number of events of this kind sent to e in this step.
CountNew(kind, e) ==
  Cardinality({i \in 1..Len(NewEvents) :
                 NewEvents[i].kind = kind /\ NewEvents[i].target = e})

EventKinds == {"Move", "Jump", "Aim", "Fire"}

\* C13 as stated: a source emits only when it has a binding of its own, so
\* the keyboard emits nothing while nothing is bound under its key.
C13_OnlyOwnBinding ==
  [][(pc = "keyboard_input" /\ KeyboardKey \notin DOMAIN players)
       => events_b' = events_b]_vars

\* C13: a gamepad emits only for the character bound under its own id; the
\* keyboard emits whenever some character is bound, all its events going to
\* one bound character; each source emits at most one event of each kind
\* per frame, and nothing is emitted while nothing is bound.
C13_EmitsForBound ==
  [][/\ pc = "keyboard_input" =>
          /\ DOMAIN players = {} => NewEvents = << >>
          /\ \A i, j \in 1..Len(NewEvents) :
               /\ NewEvents[i].target \in Values(players)
               /\ NewEvents[i].target = NewEvents[j].target
          /\ \A kind \in EventKinds : \A e \in Values(players) : CountNew(kind, e) <= 1
     /\ pc = "gamepad_input" =>
          /\ \A i \in 1..Len(NewEvents) :
               NewEvents[i].target \in {players[g] : g \in Gamepads \cap DOMAIN players}
          /\ \A kind \in EventKinds : \A e \in Values(players) :
               CountNew(kind, e) <=
                 Cardinality({g \in Gamepads \cap DOMAIN players : players[g] = e})]_vars

\* After the translators: nothing is bound under the keyboard's key, and both
\* the keyboard and the bound gamepad have sent Move to the same character.
C13_Witness ==
  /\ pc = "update_grounded"
  /\ KeyboardKey \notin DOMAIN players
  /\ \E i, j \in 1..Len(events_b) :
       /\ i < j
       /\ events_b[i].kind = "Move" /\ events_b[j].kind = "Move"
       /\ events_b[i].target = events_b[j].target

\* The character bound earliest among those in the table.
FirstBound == CHOOSE e \in Values(players) : \A f \in Values(players) : e <= f

\* C14: every keyboard event targets the character that was bound first,
\* however many characters have been bound since.
C14_KeyboardTargetsFirstBound ==
  [][(pc = "keyboard_input" /\ DOMAIN players # {}) =>
       \A i \in 1..Len(NewEvents) : NewEvents[i].target = FirstBound]_vars

\* C15: all characters, whichever source spawned them, have the same
\* acceleration, damping factor, jump impulse and maximum slope angle, and
\* start with identity aim and no fire-intent.
C15_SameTuningProfile ==
  \A e, f \in DOMAIN chars :
    /\ chars[e].acceleration = chars[f].acceleration
    /\ chars[e].damping = chars[f].damping
    /\ chars[e].jump_impulse = chars[f].jump_impulse
    /\ chars[e].max_slope = chars[f].max_slope
    /\ (chars[e].born = frame /\ pc \in {"spawn_character", "movement", "gamepad_input"})
         => (chars[e].aim = 0 /\ chars[e].fire = 0)

\* C16: for a character whose damping factor is strictly between 0 and 1,
\* the damping stage does not increase the magnitude of the horizontal
\* velocity and does not change its sign.
C16_DampingShrinks ==
  [][pc = "apply_movement_damping" =>
       \A e \in DOMAIN chars :
         (0 < chars[e].damping /\ chars[e].damping < 100) =>
           /\ Abs(chars'[e].vx) <= Abs(chars[e].vx)
           /\ chars[e].vx > 0 => chars'[e].vx >= 0
           /\ chars[e].vx < 0 => chars'[e].vx <= 0
           /\ chars[e].vx = 0 => chars'[e].vx = 0]_vars

\* After the damping stage of a late frame: one character moves right and
\* another moves left.
C16_Witness ==
  /\ pc = "apply_aim_to_gun"
  /\ frame >= 3
  /\ \E e, f \in DOMAIN chars :
       /\ chars[e].born < frame - 1 /\ chars[f].born < frame - 1
       /\ chars[e].vx > 0 /\ chars[f].vx < 0

\* C17: the damping stage changes nothing of a character but its
\* horizontal velocity, and creates or removes no character.
C17_DampingOnlyHorizontal ==
  [][pc = "apply_movement_damping" =>
       /\ DOMAIN chars' = DOMAIN chars
       /\ \A e \in DOMAIN chars :
            /\ chars'[e].vy = chars[e].vy
            /\ chars'[e].aim = chars[e].aim
            /\ chars'[e].fire = chars[e].fire
            /\ chars'[e].grounded = chars[e].grounded
            /\ chars'[e] = [chars[e] EXCEPT !.vx = chars'[e].vx]]_vars

\* After the damping stage: a grounded character with vertical and
\* horizontal velocity, a turned aim and fire-intent set.
C17_Witness ==
  /\ pc = "apply_aim_to_gun"
  /\ \E e \in DOMAIN chars :
       /\ chars[e].vy # 0 /\ chars[e].vx # 0
       /\ chars[e].aim # 0 /\ chars[e].fire > 0
       /\ chars[e].grounded

\* The Move events resolved for character e in this step.
MovesNow(e) == {r \in ResolvedNow : r.kind = "Move" /\ r.target = e}

\* The sum of the velocity deltas of the Move events ms.
RECURSIVE DeltaSum(_, _, _)
DeltaSum(ms, acc, dt) ==
  IF ms = {} THEN 0
  ELSE LET r == CHOOSE q \in ms : TRUE IN
       Quotient(r.x * acc * dt, 100000) + DeltaSum(ms \ {r}, acc, dt)

\* C18: the resolver adds dir * acceleration * delta_time to the horizontal
\* velocity for every Move event of the character, without clamping, and a
\* Move changes nothing else; one Move with dir +1, acceleration 1250 and
\* delta_time 16 ms adds 20, k of them add 20 k.
C18_MoveAddsAcceleration ==
  [][pc = "movement" =>
       \A e \in DOMAIN chars :
         /\ chars'[e].vx =
              chars[e].vx + DeltaSum(MovesNow(e), chars[e].acceleration, delta_time)
         /\ KindsNow(e) \subseteq {"Move"} =>
              chars'[e] = [chars[e] EXCEPT !.vx = chars'[e].vx]
         /\ (/\ chars[e].acceleration = 1250
             /\ delta_time = 16
             /\ \A r \in MovesNow(e) : r.x = 100)
              => chars'[e].vx = chars[e].vx + 20 * Cardinality(MovesNow(e))]_vars

\* After the resolver: a character at rest got Move(+1) from the keyboard
\* and from its gamepad in a frame of 16 ms and moves at 40 units/s; the
\* frames are long enough elsewhere for speeds above the acceleration.
C18_Witness ==
  /\ pc = "physics"
  /\ delta_time = 16
  /\ \E e \in DOMAIN chars :
       /\ Cardinality(ResolvedFor(e, "Move")) = 2
       /\ chars[e].acceleration = 1250
       /\ chars[e].vx = 40

\* The Aim events resolved for character e in this step.
AimsNow(e) == {r \in ResolvedNow : r.kind = "Aim" /\ r.target = e}

\* The positions in the log of the Aim events resolved for e before this step.
AimsBefore(e) ==
  {i \in 1..Len(resolved) : resolved[i].kind = "Aim" /\ resolved[i].target = e}

\* The latest of them.
LastAimBefore(e) == CHOOSE i \in AimsBefore(e) : \A j \in AimsBefore(e) : j <= i

\* C19: when the Aim resolved for a character has the same arguments as the
\* Aim resolved for it last, the aim orientation after the second one is the
\* one the first left, whatever the orientation was before the first.
C19_AimIdempotent ==
  [][pc = "movement" =>
       \A e \in DOMAIN chars :
         (/\ AimsNow(e) # {}
          /\ AimsBefore(e) # {}
          /\ \A r \in AimsNow(e) :
               /\ r.x = resolved[LastAimBefore(e)].x
               /\ r.y = resolved[LastAimBefore(e)].y)
           => chars'[e].aim = chars[e].aim]_vars

\* After the resolver: a character that started with identity aim has been
\* sent the same Aim in the last frame and in this one, and its aim is
\* turned.
C19_Witness ==
  /\ pc = "physics"
  /\ \E e \in DOMAIN chars :
       /\ chars[e].aim # 0
       /\ \E i, j \in 1..Len(resolved) :
            /\ resolved[i].kind = "Aim" /\ resolved[j].kind = "Aim"
            /\ resolved[i].target = e /\ resolved[j].target = e
            /\ resolved[i].at = frame - 1 /\ resolved[j].at = frame
            /\ resolved[i].x = resolved[j].x /\ resolved[i].y = resolved[j].y

\* C20: the aim orientation of a character changes in no step but the
\* resolver's, and there only when an Aim for the character is resolved; a
\* bound gamepad whose aim stick is within 0.01 on both axes sends no Aim.
C20_AimChangesOnlyOnAim ==
  [][/\ \A e \in DOMAIN chars \cap DOMAIN chars' :
          chars'[e].aim # chars[e].aim => (pc = "movement" /\ AimsNow(e) # {})
     /\ pc = "gamepad_input" =>
          \A g \in Gamepads \cap DOMAIN players :
            (/\ 0 - 1 <= pads[g].rx /\ pads[g].rx <= 1
             /\ 0 - 1 <= pads[g].ry /\ pads[g].ry <= 1)
              => CountNew("Aim", players[g]) = 0]_vars

\* After the resolver: a character with a turned aim got Move and Fire but
\* no Aim in this frame, its gamepad's aim stick being at the threshold.
C20_Witness ==
  /\ pc = "physics"
  /\ \E g \in Gamepads \cap DOMAIN players :
       /\ players[g] \in DOMAIN chars
       /\ chars[players[g]].aim # 0
       /\ pads[g].rx = 1
       /\ ResolvedFor(players[g], "Aim") = {}
       /\ ResolvedFor(players[g], "Move") # {}
       /\ ResolvedFor(players[g], "Fire") # {}

\* C21: an event whose target is not an existing character changes no
\* character and does not end the loop: every event read is accounted
\* for, a character no event names is left as it was, and every event
\* that names an existing character has its effect, wherever it stands in
\* the queue.
C21_MissingTargetDropped ==
  [][pc = "movement" =>
       /\ DOMAIN chars' = DOMAIN chars
       /\ Len(resolved') = Len(resolved) + (event_count - last_event_count)
       /\ pc' = "physics"
       /\ \A e \in DOMAIN chars :
            /\ KindsNow(e) = {} => chars'[e] = chars[e]
            /\ chars'[e].fire = IF "Fire" \in KindsNow(e) THEN 1 ELSE chars[e].fire
            /\ chars'[e].vx =
                 chars[e].vx + DeltaSum(MovesNow(e), chars[e].acceleration, delta_time)
            /\ chars'[e].vy = IF "Jump" \in KindsNow(e) /\ chars[e].grounded
                                THEN chars[e].jump_impulse ELSE chars[e].vy
            /\ (AimsNow(e) # {} /\ \A r \in AimsNow(e) : r.x = 0 /\ r.y = 100)
                 => chars'[e].aim = 4]_vars

\* After the resolver: an event for a missing character stood in the queue
\* before a Fire for an existing one, which has its fire-intent set, while
\* a character that no event named is as it was spawned.
C21_Witness ==
  /\ pc = "physics"
  /\ \E i, j \in 1..Len(resolved) :
       /\ i < j
       /\ resolved[i].target \notin DOMAIN chars
       /\ resolved[j].target \in DOMAIN chars
       /\ resolved[j].kind = "Fire"
       /\ chars[resolved[j].target].fire = 1
  /\ \E e \in DOMAIN chars :
       /\ \A i \in 1..Len(resolved) : resolved[i].target # e
       /\ chars[e].fire = 0 /\ chars[e].vx = 0 /\ chars[e].aim = 0

\* C22: a projectile that has seen n runs of the lifecycle stage, all with
\* delta dt, has moved from where it was spawned by its spawn velocity
\* times n * dt and by nothing else, and still has its spawn speed.
C22_PositionLinear ==
  \A i \in DOMAIN projectiles :
    \A dt \in DeltaTimes :
      projectiles[i].dts \subseteq {dt} =>
        /\ projectiles[i].speed = 500
        /\ projectiles[i].dist = Quotient(500 * projectiles[i].runs * dt, 1000)
        /\ projectiles[i].fall = 0

\* Place of an event kind in the order a source sends its events in.
KindRank(kind) ==
  CASE kind = "Move" -> 1 [] kind = "Jump" -> 2 [] kind = "Aim" -> 3 [] kind = "Fire" -> 4

\* The latest-sent of the Aim events resolved for e in this step.
LastAimNow(e) == CHOOSE r \in AimsNow(e) : \A q \in AimsNow(e) : q.id <= r.id

\* C23: the translators append to the frame's queue, the keyboard first and
\* then the gamepads, each source in the order Move, Jump, Aim, Fire; the
\* resolver resolves every queued event once, in queue order: the aim
\* after the frame is that of the last Aim sent for the character, and
\* every Move sent for it has been added.
C23_EmissionOrder ==
  [][/\ pc = "keyboard_input" => events_b = << >>
     /\ pc \in {"keyboard_input", "gamepad_input"} =>
          /\ Len(events_b') >= Len(events_b)
          /\ SubSeq(events_b', 1, Len(events_b)) = events_b
          /\ \A i \in 1..Len(events_b) : \A j \in 1..Len(NewEvents) :
               events_b[i].id < NewEvents[j].id
          /\ \A i, j \in 1..Len(NewEvents) :
               i < j =>
                 /\ NewEvents[i].id < NewEvents[j].id
                 /\ NewEvents[i].target = NewEvents[j].target
                      => KindRank(NewEvents[i].kind) < KindRank(NewEvents[j].kind)
     /\ pc = "movement" =>
          /\ Len(resolved') = Len(resolved) + Len(events_b)
          /\ \A i \in 1..Len(events_b) :
               resolved'[Len(resolved) + i].id = events_b[i].id
          /\ \A e \in DOMAIN chars :
               /\ AimsNow(e) # {} =>
                    chars'[e].aim = (Atan2(LastAimNow(e).y, LastAimNow(e).x) + 2) % 8
               /\ chars'[e].vx =
                    chars[e].vx + DeltaSum(MovesNow(e), chars[e].acceleration, delta_time)]_vars

\* After the resolver: the keyboard's Aim and then the gamepad's Aim, with
\* another direction, were resolved for one character in this frame, and
\* its aim is the gamepad's; two Moves were resolved for it in one frame.
C23_Witness ==
  /\ pc = "physics"
  /\ \E i, j \in 1..Len(resolved) :
       /\ i < j
       /\ resolved[i].kind = "Aim" /\ resolved[j].kind = "Aim"
       /\ resolved[i].target = resolved[j].target
       /\ resolved[i].at = frame /\ resolved[j].at = frame
       /\ resolved[i].x = KeyboardAimX /\ resolved[j].x = 0 /\ resolved[j].y = 100
       /\ chars[resolved[j].target].aim = 4
       /\ \E k, l \in 1..Len(resolved) :
            /\ k < l
            /\ resolved[k].kind = "Move" /\ resolved[l].kind = "Move"
            /\ resolved[k].target = resolved[i].target
            /\ resolved[l].target = resolved[i].target
            /\ resolved[k].at = resolved[l].at

\* The direction of a shot of character e under the Aim events resolved for
\* it so far: the last Aim's stick angle (identity aim if there was none).
ShotDirection(e) ==
  IF AimsBefore(e) = {} THEN 6
  ELSE (Atan2(resolved[LastAimBefore(e)].y, resolved[LastAimBefore(e)].x) + 2 + 6) % 8

\* C24: the resolver spawns no projectile; the weapon stage of a frame
\* spawns exactly one projectile for each character that had a Fire
\* resolved in the frame before and none for the others, with the
\* direction given by the last Aim resolved for the character by then.
C24_FireSpawnsNextFrame ==
  [][/\ pc = "movement" =>
          /\ projectiles' = projectiles
          /\ next_projectile' = next_projectile
          /\ deferred' = << >>
     /\ pc = "apply_aim_to_gun" =>
          \A e \in DOMAIN chars :
            LET shots == {i \in DOMAIN projectiles' \ DOMAIN projectiles :
                            projectiles'[i].owner = e} IN
            /\ Cardinality(shots) = IF FireResolvedIn(e, frame - 1) THEN 1 ELSE 0
            /\ \A i \in shots : projectiles'[i].dir = ShotDirection(e)]_vars

\* After the weapon stage: a projectile of this frame whose owner had an
\* Aim and, after it, a Fire resolved in the frame before; it flies where
\* that Aim points.
C24_Witness ==
  /\ pc = "move_objects"
  /\ \E p \in DOMAIN projectiles :
       /\ projectiles[p].born = frame
       /\ projectiles[p].runs = 0
       /\ projectiles[p].dir # 6
       /\ \E i, j \in 1..Len(resolved) :
            /\ i < j
            /\ resolved[i].kind = "Aim" /\ resolved[j].kind = "Fire"
            /\ resolved[i].target = projectiles[p].owner
            /\ resolved[j].target = projectiles[p].owner
            /\ resolved[i].at = frame - 1 /\ resolved[j].at = frame - 1

\* Some event of the current frame's buffer has been resolved.
SomeResolved ==
  \E i \in 1..Len(events_b) : \E j \in 1..Len(resolved) : resolved[j].id = events_b[i].id

\* C25 as stated: when the damping stage runs, the Move events of the
\* frame have been resolved.
C25_DampingAfterMoves ==
  pc = "apply_movement_damping" =>
    \A i \in 1..Len(events_b) :
      events_b[i].kind = "Move" =>
        \E j \in 1..Len(resolved) : resolved[j].id = events_b[i].id

\* C25: the damping stage runs once in a frame, between the grounded
\* detector and the weapon stage, and multiplies every character's
\* horizontal velocity by its damping factor; none of the frame's events
\* has been resolved by then, and the resolver, which runs later in the
\* frame, adds the frame's Moves undamped; no other stage of the chain
\* changes the horizontal velocity.
C25_DampingBeforeMoves ==
  [][/\ pc' = "apply_movement_damping" => (pc = "update_grounded" /\ frame' = frame)
     /\ pc = "apply_movement_damping" =>
          /\ pc' = "apply_aim_to_gun" /\ frame' = frame
          /\ ~SomeResolved
          /\ \A e \in DOMAIN chars :
               chars'[e].vx = Quotient(chars[e].vx * chars[e].damping, 100)
     /\ pc = "movement" =>
          \A e \in DOMAIN chars :
            chars'[e].vx =
              chars[e].vx + DeltaSum(MovesNow(e), chars[e].acceleration, delta_time)
     /\ pc \notin {"apply_movement_damping", "movement", "physics"} =>
          \A e \in DOMAIN chars \cap DOMAIN chars' : chars'[e].vx = chars[e].vx]_vars

\* At the end of a frame of 16 ms: a character that was at rest got one
\* Move(+1) in this frame and moves at the full 20 units/s.
C25_Witness ==
  /\ pc = "first"
  /\ delta_time = 16
  /\ \E e \in DOMAIN chars :
       /\ chars[e].born < frame
       /\ Cardinality(ResolvedFor(e, "Move")) = 1
       /\ \A i \in 1..Len(resolved) :
            (resolved[i].kind = "Move" /\ resolved[i].target = e) => resolved[i].at = frame
       /\ chars[e].vx = 20

\* Entities a projectile can have.
ProjectileIds == 0..MaxProjectiles

\* Runs of the lifecycle stage still to come.
RunsLeft ==
  (MaxFrames - frame) +
  (IF pc \in {"keyboard_input", "gamepad_input", "update_grounded",
              "apply_movement_damping", "apply_aim_to_gun", "move_objects"}
     THEN 1 ELSE 0)

\* Time elapses and the runs to come are enough for projectile i to use up
\* its lifetime and be found expired.
EnoughFrames(i) ==
  /\ delta_time > 0
  /\ (IF projectiles[i].lifetime <= 0 THEN 1
      ELSE Ceil(projectiles[i].lifetime, delta_time) + 1) <= RunsLeft

\* C26: projectiles disappear in the lifecycle stage only, and there
\* exactly those whose lifetime has run out, the others losing delta_time
\* of lifetime; a destroyed projectile's entity is never a projectile
\* again; a projectile in flight is eventually destroyed when time elapses
\* in every frame (and frames enough follow), and is never destroyed when
\* no time elapses.
C26_ProjectileLifecycle ==
  /\ [][/\ (\E i \in DOMAIN projectiles : i \notin DOMAIN projectiles')
             => pc = "move_objects"
        /\ \A d \in destroyed' : d.id \notin DOMAIN projectiles'
        /\ \A i \in DOMAIN projectiles' \ DOMAIN projectiles : i >= next_projectile
        /\ pc = "move_objects" =>
             \A i \in DOMAIN projectiles :
               IF projectiles[i].lifetime <= 0
                 THEN i \notin DOMAIN projectiles'
                 ELSE /\ i \in DOMAIN projectiles'
                      /\ projectiles'[i].lifetime = projectiles[i].lifetime - delta_time
        /\ delta_time = 0 => destroyed' = {}]_vars
  /\ \A i \in ProjectileIds :
       (i \in DOMAIN projectiles /\ EnoughFrames(i))
         ~> (i \notin DOMAIN projectiles /\ \E d \in destroyed : d.id = i)

\* After the lifecycle stage with time elapsing: the projectile that was
\* in flight has been destroyed in this frame.
C26_Witness ==
  /\ pc = "spawn_character"
  /\ delta_time > 0
  /\ projectiles = << >>
  /\ \E d \in destroyed : d.at = frame /\ d.runs > 1

\* The Fire events resolved for character e in frame f.
FiresIn(e, f) ==
  {i \in 1..Len(resolved) :
     resolved[i].kind = "Fire" /\ resolved[i].target = e /\ resolved[i].at = f}

\* C27: however many Fire events the resolver resolves for a character in
\* a frame, its fire-intent is 1 afterwards, and the weapon stage of the
\* next frame spawns one projectile for it, and never more than one for
\* any character.
C27_OneProjectilePerFrame ==
  [][/\ pc = "movement" =>
          \A e \in DOMAIN chars :
            chars'[e].fire = IF \E r \in ResolvedNow : r.kind = "Fire" /\ r.target = e
                               THEN 1 ELSE chars[e].fire
     /\ \A e \in DOMAIN chars :
          LET shots == {i \in DOMAIN projectiles' \ DOMAIN projectiles :
                          projectiles'[i].owner = e} IN
          /\ Cardinality(shots) <= 1
          /\ (pc = "apply_aim_to_gun" /\ Cardinality(FiresIn(e, frame - 1)) >= 1)
               => Cardinality(shots) = 1]_vars

\* After the weapon stage: the keyboard's and the gamepad's Fire were both
\* resolved for one character in the frame before, and one projectile of
\* this frame is its.
C27_Witness ==
  /\ pc = "move_objects"
  /\ \E e \in DOMAIN chars :
       /\ Cardinality(FiresIn(e, frame - 1)) = 2
       /\ Cardinality({i \in DOMAIN projectiles :
                         projectiles[i].owner = e /\ projectiles[i].born = frame}) = 1

\* C28: at every frame boundary the horizontal speed of a character that
\* started at rest and got at most one Move a frame is at most
\* acceleration * delta_time / (1 - damping factor); that is 250 units/s
\* for acceleration 1250, 16 ms frames and factor 0.92.
C28_VelocityBounded ==
  \A e \in DOMAIN chars :
    /\ Abs(chars[e].vx) * (100 - chars[e].damping) * 10
         <= chars[e].acceleration * delta_time
    /\ (chars[e].acceleration = 1250 /\ delta_time = 16 /\ chars[e].damping = 92)
         => Abs(chars[e].vx) <= 250

\* A character that has been pushed for many 16 ms frames and moves at
\* more than 200 units/s.
C28_Witness ==
  /\ delta_time = 16
  /\ frame >= 20
  /\ \E e \in DOMAIN chars : chars[e].vx > 200

====
